---- MODULE Spec2Model ----
EXTENDS Integers, Sequences, FiniteSets, TLC

(***************************************************************************)
(* FinDashboard: two Streamlit scripts.                                    *)
(*   crypto_dashboard.py  top coins -> history -> indicator -> gauge,     *)
(*                        both fetches behind st.cache_data(ttl=600)       *)
(*   app.py               FX / stock / crypto page, uncached fetches       *)
(* Streamlit runs a script top to bottom on every interaction; an          *)
(* uncaught exception ends the run.  The cache and the clock outlive runs. *)
(***************************************************************************)

VARIABLES
    now,        \* wall clock, seconds
    topCache,   \* st.cache_data store of fetch_top_coins, keyed by n
    histCache,  \* st.cache_data store of fetch_coin_history, keyed by (coin_id, days)
    pc,         \* position of crypto_dashboard.py's run
    http,       \* the HTTP response the last cached call received, NoCall on a hit
    coins,      \* crypto_dashboard.py: coins
    coin_id,    \* crypto_dashboard.py: coin_id
    heap,       \* DataFrame objects of the current run, by reference
    df,         \* crypto_dashboard.py: df  (a reference)
    df2,        \* crypto_dashboard.py: df2 (a reference)
    strength,   \* crypto_dashboard.py: strength
    perc,       \* crypto_dashboard.py: perc
    exc,        \* the exception that ended the run, "none" otherwise
    apc,        \* position of app.py's run
    data_type,  \* app.py: data_type (sidebar selectbox)
    ahttp,      \* app.py: the HTTP responses of the run, in order
    adf,        \* app.py: df
    shown,      \* app.py: what the page rendered
    aexc,       \* app.py: the exception that ended the run
    returned    \* per kind of stock response, what fetch_stock_intraday last returned

vars == <<now, topCache, histCache, pc, http, coins, coin_id, heap, df, df2,
          strength, perc, exc, apc, data_type, ahttp, adf, shown, aexc, returned>>

dashVars == <<now, topCache, histCache, pc, http, coins, coin_id, heap, df, df2,
              strength, perc, exc>>
appVars == <<apc, data_type, ahttp, adf, shown, aexc, returned>>

----------------------------------------------------------------------------
(* Bounds of the model *)

MaxTime == 1202     \* the clock stops advancing here
MaxLead == 3        \* strength inputs: samples before the body
MaxBody == 20       \* strength inputs: samples of the body
LongLen == 21       \* samples of the long history payload

(* Program constants *)

TTL == 600          \* @st.cache_data(ttl=600)
PerPage == 30       \* fetch_top_coins(30)
Days == 30          \* fetch_coin_history(coin_id, days=30)
Window == 20        \* SMAIndicator(df["price"], window=20)
GaugeScale == 50    \* int((strength + 1) * 50)
NsPerMs == 1000000  \* pd.to_datetime(..., unit="ms") yields datetime64[ns]

----------------------------------------------------------------------------
(* Generic helpers *)

RECURSIVE SumSeq(_)
SumSeq(s) == IF s = <<>> THEN 0 ELSE Head(s) + SumSeq(Tail(s))

RECURSIVE Repeat(_, _)
Repeat(n, x) == IF n <= 0 THEN <<>> ELSE <<x>> \o Repeat(n - 1, x)

LastN(s, n) == SubSeq(s, Len(s) - n + 1, Len(s))

RECURSIVE Concat(_)
Concat(ss) == IF ss = <<>> THEN <<>> ELSE Head(ss) \o Concat(Tail(ss))

Min(S) == CHOOSE x \in S : \A y \in S : x <= y

----------------------------------------------------------------------------
(* Python exceptions and call outcomes *)

Raise(e) == [exc |-> e, value |-> <<>>]
Return(v) == [exc |-> "none", value |-> v]

(* HTTP: requests.get(url, params, timeout=10) followed by r.json() *)
NoBody == [shape |-> "none", keys |-> {}, items |-> <<>>, prices |-> <<>>, total_volumes |-> <<>>]
NoCall == [kind |-> "nocall", body |-> NoBody]
Failure(k) == [kind |-> k, body |-> NoBody]
Json(b) == [kind |-> "json", body |-> b]

\* requests.get raises on a transport failure or a timeout, r.json() on a
\* body that is not JSON; neither is caught anywhere in the two scripts.
HttpExc(r) ==
    CASE r.kind = "transport" -> "ConnectionError"
      [] r.kind = "timeout" -> "Timeout"
      [] r.kind = "nonjson" -> "JSONDecodeError"
      [] OTHER -> "none"

----------------------------------------------------------------------------
(* st.cache_data(ttl=600): one store per decorated function, keyed by the   *)
(* call's arguments.  A stored entry is served while its age is below the  *)
(* ttl; the function body runs otherwise, and its return value is stored   *)
(* unless it raised.  The store holds a pickled value, so callers never    *)
(* share an object with it.                                                *)

NoEntry == [present |-> FALSE, stored |-> 0, value |-> <<>>]

\* Whether an entry of age `t - e.stored` is served.  At an age of exactly
\* ttl the answer depends on the cachetools release behind Streamlit
\* (expires < now in 4.x, not (now < expires) in 5.x): both are possible.
FreshNoTtl(e, t) == IF e.present THEN {TRUE} ELSE {FALSE}
FreshOutcomes(e, t) ==
    IF ~e.present THEN {FALSE}
    ELSE IF t < e.stored + TTL THEN {TRUE}
    ELSE IF t > e.stored + TTL THEN {FALSE}
    ELSE {TRUE, FALSE}

\* The entry after the function body ran at time t with outcome `out`.
CacheStore(e, t, out) ==
    IF out.exc = "none" THEN [present |-> TRUE, stored |-> t, value |-> out.value]
    ELSE e

----------------------------------------------------------------------------
(* fetch_top_coins *)

Bitcoin == [id |-> "bitcoin", symbol |-> "btc", name |-> "Bitcoin"]
Tether == [id |-> "tether", symbol |-> "usdt", name |-> "Tether"]
Market == {Bitcoin, Tether}
CoinIds == { c.id : c \in Market }

\* What /coins/markets can answer: a list of coin dicts, in any order.
Listings ==
    {<<>>} \cup { <<c>> : c \in Market }
           \cup { <<c, d>> : <<c, d>> \in { p \in Market \X Market : p[1] # p[2] } }

ListBody(l) == [shape |-> "list", keys |-> {}, items |-> l, prices |-> <<>>, total_volumes |-> <<>>]
\* CoinGecko's throttling / error answer: {"status": {"error_code": 429, ...}}
ErrorBody == [shape |-> "dict", keys |-> {"status"}, items |-> <<>>, prices |-> <<>>, total_volumes |-> <<>>]

TopResponses ==
    {Failure("transport"), Failure("timeout"), Failure("nonjson"), Json(ErrorBody)}
        \cup { Json(ListBody(l)) : l \in Listings }

\* The body of fetch_top_coins on HTTP response r: whatever JSON came back
\* is returned as it is.
fetch_top_coins(r) ==
    IF HttpExc(r) # "none" THEN Raise(HttpExc(r)) ELSE Return(r.body)

----------------------------------------------------------------------------
(* fetch_coin_history *)

NaN == <<>>                     \* a missing cell
ToDatetime(ms) == ms * NsPerMs  \* pd.to_datetime(unit="ms")

BaseCols == <<"timestamp", "price", "volume">>
NoFrame == [cols |-> <<>>, rows |-> <<>>]

HistBody(p, v) == [shape |-> "dict", keys |-> {"prices", "total_volumes"}, items |-> <<>>,
                   prices |-> p, total_volumes |-> v]
NoVolumesBody(p) == [shape |-> "dict", keys |-> {"prices"}, items |-> <<>>,
                     prices |-> p, total_volumes |-> <<>>]

\* df.merge(vol, on="timestamp", how="left"): the left rows in their order,
\* each once per matching right row (in the right's order), or once with a
\* missing volume when nothing matches.
MergeRow(l, right) ==
    LET hits == SelectSeq(right, LAMBDA r : r.timestamp = l.timestamp)
    IN  IF hits = <<>>
        THEN << [timestamp |-> l.timestamp, price |-> l.price, volume |-> NaN] >>
        ELSE [ j \in 1..Len(hits) |->
                 [timestamp |-> l.timestamp, price |-> l.price, volume |-> <<hits[j].volume>>] ]

MergeLeft(left, right) == Concat([ i \in 1..Len(left) |-> MergeRow(left[i], right) ])

\* The body of fetch_coin_history on HTTP response r.
fetch_coin_history(r) ==
    IF HttpExc(r) # "none" THEN Raise(HttpExc(r))
    ELSE IF "prices" \notin r.body.keys THEN Raise("KeyError")
    ELSE IF "total_volumes" \notin r.body.keys THEN Raise("KeyError")
    ELSE LET prices == [ i \in 1..Len(r.body.prices) |->
                           [timestamp |-> ToDatetime(r.body.prices[i][1]),
                            price |-> r.body.prices[i][2]] ]
             vol == [ i \in 1..Len(r.body.total_volumes) |->
                        [timestamp |-> ToDatetime(r.body.total_volumes[i][1]),
                         volume |-> r.body.total_volumes[i][2]] ]
         IN  Return([cols |-> BaseCols, rows |-> MergeLeft(prices, vol)])

\* What /coins/{id}/market_chart can answer.
ShuffledBody == HistBody(<< <<2, 100>>, <<1, 110>>, <<2, 90>> >>, << <<1, 5>>, <<1, 6>> >>)
LongBody == HistBody([ i \in 1..LongLen |-> <<i, 100 + i>> ], [ i \in 1..LongLen |-> <<i, 7>> ])
EmptyBody == HistBody(<<>>, <<>>)

HistResponses ==
    {Failure("transport"), Failure("timeout"), Failure("nonjson"), Json(ErrorBody),
     Json(NoVolumesBody(<< <<1, 100>> >>)), Json(EmptyBody), Json(ShuffledBody), Json(LongBody)}

----------------------------------------------------------------------------
(* compute_indicator: adds the chosen indicator's columns to ITS ARGUMENT   *)
(* and returns it.  The cell values come from the ta library and are not   *)
(* modelled; the columns are.                                              *)

Indicators == {"SMA", "Bollinger Bands", "Ichimoku", "RSI"}

IndicatorCols(kind) ==
    CASE kind = "SMA" -> <<"SMA_14">>
      [] kind = "Bollinger Bands" -> <<"bb_h", "bb_l", "bb_m">>
      [] kind = "Ichimoku" -> <<"tenkan", "kijun", "senkou_a", "senkou_b">>
      [] kind = "RSI" -> <<"rsi_14">>
      [] OTHER -> <<>>

InSeq(x, s) == \E i \in 1..Len(s) : s[i] = x

RECURSIVE AddCols(_, _)
AddCols(cols, new) ==
    IF new = <<>> THEN cols
    ELSE AddCols(IF InSeq(Head(new), cols) THEN cols ELSE Append(cols, Head(new)), Tail(new))

compute_indicator(frame, kind) == [frame EXCEPT !.cols = AddCols(frame.cols, IndicatorCols(kind))]

(* DataFrame objects.  A run holds at most two: the fetched one and its copy. *)
ObjIds == {"o1", "o2"}
Null == "null"
EmptyHeap == [ o \in ObjIds |-> NoFrame ]
NewRef(used) == IF "o1" \notin used THEN "o1" ELSE "o2"

\* df.copy(): a new object holding the same cells.
DfAlias(h, ref) == [heap |-> h, ref |-> ref]
DfCopy(h, ref) ==
    LET n == NewRef({ref}) IN [heap |-> [h EXCEPT ![n] = h[ref]], ref |-> n]

----------------------------------------------------------------------------
(* Floats, as far as the strength score needs them: a rational num/den     *)
(* with den > 0, an infinity, or nan.  numpy division by zero yields nan   *)
(* or an infinity, never an exception.                                     *)

Fin(n, d) == [kind |-> "fin", num |-> n, den |-> d]
FNaN == [kind |-> "nan", num |-> 0, den |-> 1]
FInf(sign) == [kind |-> "inf", num |-> sign, den |-> 1]
FInt(n) == Fin(n, 1)

Sign(n) == IF n < 0 THEN -1 ELSE IF n > 0 THEN 1 ELSE 0
Abs(n) == IF n < 0 THEN -n ELSE n

FSub(a, b) ==
    IF a.kind = "nan" \/ b.kind = "nan" THEN FNaN
    ELSE IF a.kind = "inf" /\ b.kind = "inf" THEN (IF a.num = b.num THEN FNaN ELSE a)
    ELSE IF a.kind = "inf" THEN a
    ELSE IF b.kind = "inf" THEN FInf(-b.num)
    ELSE Fin(a.num * b.den - b.num * a.den, a.den * b.den)

FAdd(a, b) ==
    IF a.kind = "nan" \/ b.kind = "nan" THEN FNaN
    ELSE IF a.kind = "inf" /\ b.kind = "inf" THEN (IF a.num = b.num THEN a ELSE FNaN)
    ELSE IF a.kind = "inf" THEN a
    ELSE IF b.kind = "inf" THEN b
    ELSE Fin(a.num * b.den + b.num * a.den, a.den * b.den)

FDiv(a, b) ==
    IF a.kind = "nan" \/ b.kind = "nan" THEN FNaN
    ELSE IF a.kind = "inf" /\ b.kind = "inf" THEN FNaN
    ELSE IF a.kind = "inf" THEN (IF b.num < 0 THEN FInf(-a.num) ELSE a)
    ELSE IF b.kind = "inf" THEN FInt(0)
    ELSE IF b.num = 0 THEN (IF a.num = 0 THEN FNaN ELSE FInf(Sign(a.num)))
    ELSE Fin(a.num * b.den * Sign(b.num), a.den * Abs(b.num))

\* a < b; every comparison with nan is false.
FLt(a, b) ==
    IF a.kind = "nan" \/ b.kind = "nan" THEN FALSE
    ELSE IF a.kind = "inf" /\ b.kind = "inf" THEN a.num < b.num
    ELSE IF a.kind = "inf" THEN a.num < 0
    ELSE IF b.kind = "inf" THEN b.num > 0
    ELSE a.num * b.den < b.num * a.den

FEq(a, b) ==
    IF a.kind = "nan" \/ b.kind = "nan" THEN FALSE
    ELSE IF a.kind = "inf" \/ b.kind = "inf" THEN a.kind = b.kind /\ a.num = b.num
    ELSE a.num * b.den = b.num * a.den

\* Python's builtins: min(a, b) is a unless b < a, max(a, b) is a unless b > a.
PyMin(a, b) == IF FLt(b, a) THEN b ELSE a
PyMax(a, b) == IF FLt(a, b) THEN b ELSE a

\* int(x): truncation towards zero; raises on nan and on an infinity.
PyInt(x) ==
    IF x.kind = "nan" THEN Raise("ValueError")
    ELSE IF x.kind = "inf" THEN Raise("OverflowError")
    ELSE Return(Sign(x.num) * (Abs(x.num) \div x.den))

----------------------------------------------------------------------------
(* compute_buy_sell_strength *)

Prices(frame) == [ i \in 1..Len(frame.rows) |-> frame.rows[i].price ]

\* SMAIndicator(close, window).sma_indicator().iloc[-1]:
\* close.rolling(window, min_periods=window).mean() is nan until `window`
\* samples are there.
LastSma(prices, window) ==
    IF Len(prices) < window THEN FNaN
    ELSE Fin(SumSeq(LastN(prices, window)), window)

Unclamped(frame) ==
    LET prices == Prices(frame)
        last == FInt(prices[Len(prices)])
        last_sma == LastSma(prices, Window)
        diff == FSub(last, last_sma)
    IN  IF prices = <<>> THEN Raise("IndexError")
        ELSE Return(FDiv(diff, last_sma))

compute_buy_sell_strength(frame) ==
    LET prices == Prices(frame)
        last == FInt(prices[Len(prices)])
        last_sma == LastSma(prices, Window)
        diff == FSub(last, last_sma)
    IN  IF prices = <<>> THEN Raise("IndexError")     \* df["price"].iloc[-1]
        ELSE Return(PyMax(PyMin(FDiv(diff, last_sma), FInt(1)), FInt(-1)))

\* perc = int((strength + 1) * 50)
GaugePerc(s) ==
    LET shifted == FAdd(s, FInt(1))
        scaled == IF shifted.kind = "fin" THEN Fin(shifted.num * GaugeScale, shifted.den)
                  ELSE shifted
    IN  PyInt(scaled)

----------------------------------------------------------------------------
(* crypto_dashboard.py, one run of the script *)

Unset == [kind |-> "unset", num |-> 0, den |-> 1]
HistKeys == CoinIds \X {Days}

AppIdle ==
    /\ apc = "idle"
    /\ data_type = "none"
    /\ ahttp = <<>>
    /\ adf = NoFrame
    /\ shown = "nothing"
    /\ aexc = "none"
    /\ returned = [ k \in {"ratelimit", "malformed"} |-> <<>> ]

RunStart ==
    /\ pc = "fetch_top"
    /\ http = NoCall
    /\ coins = NoBody
    /\ coin_id = Null
    /\ heap = EmptyHeap
    /\ df = Null
    /\ df2 = Null
    /\ strength = Unset
    /\ perc = <<>>
    /\ exc = "none"

Init ==
    /\ now = 0
    /\ topCache = [ k \in {PerPage} |-> NoEntry ]
    /\ histCache = [ k \in HistKeys |-> NoEntry ]
    /\ RunStart
    /\ AppIdle

\* Time passes.  The clock is read only by the two cached calls, so it is
\* advanced right before them.
TickSteps == {TTL - 1, TTL, TTL + 1}
Tick ==
    /\ pc \in {"fetch_top", "fetch_history"}
    /\ \E d \in TickSteps : now + d <= MaxTime /\ now' = now + d
    /\ UNCHANGED <<topCache, histCache, pc, http, coins, coin_id, heap, df, df2,
                   strength, perc, exc>>
    /\ UNCHANGED appVars

\* coins = fetch_top_coins(30)
FetchTopCoins ==
    /\ pc = "fetch_top"
    /\ LET e == topCache[PerPage] IN
       \E hit \in FreshOutcomes(e, now) :
          IF hit
          THEN /\ http' = NoCall
               /\ coins' = e.value
               /\ pc' = "select"
               /\ UNCHANGED <<topCache, exc>>
          ELSE \E r \in TopResponses :
               LET out == fetch_top_coins(r) IN
               /\ http' = r
               /\ topCache' = [topCache EXCEPT ![PerPage] = CacheStore(e, now, out)]
               /\ IF out.exc = "none"
                  THEN coins' = out.value /\ pc' = "select" /\ exc' = exc
                  ELSE coins' = coins /\ pc' = "error" /\ exc' = out.exc
    /\ UNCHANGED <<now, histCache, coin_id, heap, df, df2, strength, perc>>
    /\ UNCHANGED appVars

\* coin_names = [f"{c['name']} ({c['symbol']})" for c in coins]
CoinNames(list) == [ i \in 1..Len(list) |-> <<list[i].name, list[i].symbol>> ]
\* coin_names.index(choice): the first position holding it
IndexOf(names, choice) == Min({ i \in 1..Len(names) : names[i] = choice })

\* coin_names, choice = st.selectbox(...), idx, coin, coin_id
SelectCoin ==
    /\ pc = "select"
    /\ IF coins.shape = "dict"
       THEN \* iterating a dict yields its keys: c['name'] on a str
            pc' = "error" /\ exc' = "TypeError" /\ coin_id' = coin_id
       ELSE IF coins.items = <<>>
       THEN \* selectbox over no options returns None; [].index(None)
            pc' = "error" /\ exc' = "ValueError" /\ coin_id' = coin_id
       ELSE \E i \in 1..Len(coins.items) :
            LET names == CoinNames(coins.items)
                idx == IndexOf(names, names[i])
            IN  coin_id' = coins.items[idx].id /\ pc' = "fetch_history" /\ exc' = exc
    /\ UNCHANGED <<now, topCache, histCache, http, coins, heap, df, df2, strength, perc>>
    /\ UNCHANGED appVars

\* df = fetch_coin_history(coin_id, days=30)
FetchCoinHistory ==
    /\ pc = "fetch_history"
    /\ LET key == <<coin_id, Days>>
           e == histCache[key]
           ref == NewRef({})
       IN
       \E hit \in FreshOutcomes(e, now) :
          IF hit
          THEN /\ http' = NoCall
               /\ heap' = [heap EXCEPT ![ref] = e.value]
               /\ df' = ref
               /\ pc' = "indicator"
               /\ UNCHANGED <<histCache, exc>>
          ELSE \E r \in HistResponses :
               LET out == fetch_coin_history(r) IN
               /\ http' = r
               /\ histCache' = [histCache EXCEPT ![key] = CacheStore(e, now, out)]
               /\ IF out.exc = "none"
                  THEN /\ heap' = [heap EXCEPT ![ref] = out.value]
                       /\ df' = ref /\ pc' = "indicator" /\ exc' = exc
                  ELSE /\ heap' = heap
                       /\ df' = df /\ pc' = "error" /\ exc' = out.exc
    /\ UNCHANGED <<now, topCache, coins, coin_id, df2, strength, perc>>
    /\ UNCHANGED appVars

\* indicator = st.selectbox(...); df2 = compute_indicator(df.copy(), indicator)
ComputeIndicator ==
    /\ pc = "indicator"
    /\ \E kind \in Indicators :
       LET c == DfCopy(heap, df) IN
       /\ heap' = [c.heap EXCEPT ![c.ref] = compute_indicator(c.heap[c.ref], kind)]
       /\ df2' = c.ref
    /\ pc' = "strength"
    /\ UNCHANGED <<now, topCache, histCache, http, coins, coin_id, df, strength, perc, exc>>
    /\ UNCHANGED appVars

\* strength = compute_buy_sell_strength(df2)
ComputeStrength ==
    /\ pc = "strength"
    /\ LET out == compute_buy_sell_strength(heap[df2]) IN
       IF out.exc = "none"
       THEN strength' = out.value /\ pc' = "gauge" /\ exc' = exc
       ELSE strength' = strength /\ pc' = "error" /\ exc' = out.exc
    /\ UNCHANGED <<now, topCache, histCache, http, coins, coin_id, heap, df, df2, perc>>
    /\ UNCHANGED appVars

\* perc = int((strength + 1) * 50), then the gauge is drawn
Gauge ==
    /\ pc = "gauge"
    /\ LET out == GaugePerc(strength) IN
       IF out.exc = "none"
       THEN perc' = <<out.value>> /\ pc' = "done" /\ exc' = exc
       ELSE perc' = perc /\ pc' = "error" /\ exc' = out.exc
    /\ UNCHANGED <<now, topCache, histCache, http, coins, coin_id, heap, df, df2, strength>>
    /\ UNCHANGED appVars

\* The next interaction runs the script again from the top.
Rerun ==
    /\ pc \in {"done", "error"}
    /\ pc' = "fetch_top"
    /\ http' = NoCall
    /\ coins' = NoBody
    /\ coin_id' = Null
    /\ heap' = EmptyHeap
    /\ df' = Null
    /\ df2' = Null
    /\ strength' = Unset
    /\ perc' = <<>>
    /\ exc' = "none"
    /\ UNCHANGED <<now, topCache, histCache>>
    /\ UNCHANGED appVars

Next ==
    \/ Tick
    \/ FetchTopCoins
    \/ SelectCoin
    \/ FetchCoinHistory
    \/ ComputeIndicator
    \/ ComputeStrength
    \/ Gauge
    \/ Rerun

Spec == Init /\ [][Next]_vars

----------------------------------------------------------------------------
(* compute_buy_sell_strength and the gauge on their own: the run is picked *)
(* up at step 6 with a history of up to MaxLead + MaxBody + 1 samples.     *)

SamplePrices == {0, 1, 3, 50}

\* n1 samples at p1, n2 samples at p2, and a last sample p3.
SeriesInputs ==
    { Repeat(n1, p1) \o Repeat(n2, p2) \o <<p3>> :
        n1 \in 0..MaxLead, n2 \in 0..MaxBody,
        p1 \in SamplePrices, p2 \in SamplePrices, p3 \in SamplePrices }

SeriesFrame(prices) ==
    [cols |-> BaseCols,
     rows |-> [ i \in 1..Len(prices) |->
                  [timestamp |-> ToDatetime(i), price |-> prices[i], volume |-> NaN] ]]

InitStrength ==
    /\ now = 0
    /\ topCache = [ k \in {PerPage} |-> NoEntry ]
    /\ histCache = [ k \in HistKeys |-> NoEntry ]
    /\ http = NoCall
    /\ coins = NoBody
    /\ coin_id = "bitcoin"
    /\ \E prices \in SeriesInputs, kind \in Indicators :
          heap = [ o \in ObjIds |-> IF o = "o1" THEN SeriesFrame(prices)
                                   ELSE compute_indicator(SeriesFrame(prices), kind) ]
    /\ df = "o1"
    /\ df2 = "o2"
    /\ strength = Unset
    /\ perc = <<>>
    /\ exc = "none"
    /\ pc = "strength"
    /\ AppIdle

NextStrength ==
    \/ ComputeStrength
    \/ Gauge

SpecStrength == InitStrength /\ [][NextStrength]_vars

----------------------------------------------------------------------------
(* app.py: the sidebar picks a dataset, the matching fetch runs (no cache), *)
(* and the result is charted.                                              *)

DataTypes == {"FX (USD/EUR)", "Stock (AAPL)", "Crypto (BTC)"}

\* A JSON answer as app.py reads it: the top-level keys, the bars under the
\* "Time Series ..." key (timestamp, close) in document order, how the bar
\* fields are labelled ("1. open" ... or bare "open" ...), the "prices" list,
\* and whether the value is empty (falsy).
ABody(keys, series, labels, prices, empty) ==
    [keys |-> keys, series |-> series, labels |-> labels, prices |-> prices, empty |-> empty]
ANoBody == ABody({}, <<>>, "numbered", <<>>, TRUE)
AFailure(k) == [kind |-> k, body |-> ANoBody]

Bars == { <<>>, << <<2, 11>>, <<1, 10>> >> }
\* Alpha Vantage's throttling answers carry a "Note" or an "Information" key.
RateLimitBodies == { ABody({k}, <<>>, "numbered", <<>>, FALSE) : k \in {"Note", "Information"} }
\* A JSON object of an unexpected shape.
MalformedBody == ABody({"unexpected"}, <<>>, "numbered", <<>>, FALSE)

HttpFailures == {AFailure("transport"), AFailure("timeout"), AFailure("nonjson")}

TimeSeriesKey(keys) ==
    IF \E k \in keys : k \in {"Time Series (60min)", "Time Series FX (Daily)"}
    THEN {CHOOSE k \in keys : k \in {"Time Series (60min)", "Time Series FX (Daily)"}}
    ELSE {}

\* Insertion sort by timestamp: DataFrame.sort_index()
RECURSIVE SortBars(_)
InsertBar(b, s) ==
    LET before == SelectSeq(s, LAMBDA x : x[1] <= b[1])
        after == SelectSeq(s, LAMBDA x : x[1] > b[1])
    IN  before \o <<b>> \o after
SortBars(s) == IF s = <<>> THEN <<>> ELSE InsertBar(Head(s), SortBars(Tail(s)))

OhlcCols(labels) ==
    IF labels = "numbered" THEN <<"1. open", "2. high", "3. low", "4. close">>
    ELSE <<"open", "high", "low", "close">>

\* pd.DataFrame.from_dict(series, orient="index").sort_index(): no bar, no column.
BarsFrame(series, cols) ==
    IF series = <<>> THEN NoFrame
    ELSE [cols |-> cols,
          rows |-> [ i \in 1..Len(series) |->
                       [timestamp |-> SortBars(series)[i][1], price |-> SortBars(series)[i][2],
                        volume |-> NaN] ]]

RenamedFx(c) ==
    CASE c = "1. open" -> "open" [] c = "2. high" -> "high"
      [] c = "3. low" -> "low" [] c = "4. close" -> "close" [] OTHER -> c

\* fetch_fx_usd_eur on HTTP response r
fetch_fx_usd_eur(r) ==
    IF HttpExc(r) # "none" THEN Raise(HttpExc(r))
    ELSE LET series == IF "Time Series FX (Daily)" \in r.body.keys THEN r.body.series ELSE <<>>
             frame == BarsFrame(series, OhlcCols(r.body.labels))
         IN  Return([frame EXCEPT !.cols = [ i \in 1..Len(frame.cols) |-> RenamedFx(frame.cols[i]) ]])

\* c.split(". ")[1]
SplitLabel(c) ==
    CASE c = "1. open" -> Return("open") [] c = "2. high" -> Return("high")
      [] c = "3. low" -> Return("low") [] c = "4. close" -> Return("close")
      [] OTHER -> Raise("IndexError")

\* fetch_stock_intraday on HTTP response r
fetch_stock_intraday(r) ==
    IF HttpExc(r) # "none" THEN Raise(HttpExc(r))
    ELSE IF TimeSeriesKey(r.body.keys) = {} THEN Return(NoFrame)     \* pd.DataFrame()
    ELSE LET frame == BarsFrame(r.body.series, OhlcCols(r.body.labels))
         IN  IF \E i \in 1..Len(frame.cols) : SplitLabel(frame.cols[i]).exc # "none"
             THEN Raise("IndexError")
             ELSE Return([frame EXCEPT !.cols =
                            [ i \in 1..Len(frame.cols) |-> SplitLabel(frame.cols[i]).value ]])

\* fetch_crypto_price on the responses of its two requests; r2 is not
\* requested when the first answer is empty.
fetch_crypto_price(r1, r2) ==
    IF HttpExc(r1) # "none" THEN Raise(HttpExc(r1))
    ELSE IF r1.body.empty THEN Return(NoFrame)                       \* pd.DataFrame()
    ELSE IF HttpExc(r2) # "none" THEN Raise(HttpExc(r2))
    ELSE LET prices == IF "prices" \in r2.body.keys THEN r2.body.prices ELSE <<>>
         IN  Return([cols |-> <<"price">>,
                     rows |-> [ i \in 1..Len(prices) |->
                                  [timestamp |-> ToDatetime(prices[i][1]), price |-> prices[i][2],
                                   volume |-> NaN] ]])

FxResponses ==
    HttpFailures \cup { [kind |-> "json", body |-> b] : b \in RateLimitBodies }
      \cup { [kind |-> "json", body |-> ABody({"Meta Data", "Time Series FX (Daily)"}, bars, l, <<>>, FALSE)] :
               bars \in Bars, l \in {"numbered", "plain"} }

StockResponses ==
    HttpFailures \cup { [kind |-> "json", body |-> b] : b \in RateLimitBodies \cup {MalformedBody} }
      \cup { [kind |-> "json", body |-> ABody({"Meta Data", "Time Series (60min)"}, bars, l, <<>>, FALSE)] :
               bars \in Bars, l \in {"numbered", "plain"} }

MarketsResponses ==
    HttpFailures \cup { [kind |-> "json", body |-> ABody({}, <<>>, "numbered", <<>>, e)] : e \in BOOLEAN }
ChartResponses ==
    HttpFailures
      \cup { [kind |-> "json", body |-> ABody({"status"}, <<>>, "numbered", <<>>, FALSE)] }
      \cup { [kind |-> "json", body |-> ABody({"prices", "total_volumes"}, <<>>, "numbered", p, FALSE)] :
               p \in { <<>>, << <<1, 100>>, <<2, 110>> >> } }

\* What kind of upstream answer a stock response is.
StockClass(r) ==
    IF r.kind = "json" /\ r.body \in RateLimitBodies THEN "ratelimit"
    ELSE IF r.kind = "nonjson" THEN "malformed"
    ELSE IF r.kind = "json" /\ TimeSeriesKey(r.body.keys) = {} THEN "malformed"
    ELSE IF r.kind = "json" /\ r.body.labels # "numbered" THEN "malformed"
    ELSE "other"

HasCol(frame, c) == InSeq(c, frame.cols)
IsEmpty(frame) == frame.rows = <<>> \/ frame.cols = <<>>      \* DataFrame.empty

\* data_type = st.sidebar.selectbox(...)
AppSelect ==
    /\ apc = "idle"
    /\ \E d \in DataTypes : data_type' = d
    /\ apc' = "fetch"
    /\ UNCHANGED <<ahttp, adf, shown, aexc, returned>>
    /\ UNCHANGED dashVars

\* df = fetch_fx_usd_eur()
AppFetchFx ==
    /\ apc = "fetch" /\ data_type = "FX (USD/EUR)"
    /\ \E r \in FxResponses :
       LET out == fetch_fx_usd_eur(r) IN
       /\ ahttp' = <<r>>
       /\ IF out.exc = "none"
          THEN adf' = out.value /\ apc' = "render" /\ aexc' = aexc
          ELSE adf' = adf /\ apc' = "error" /\ aexc' = out.exc
    /\ UNCHANGED <<data_type, shown, returned>>
    /\ UNCHANGED dashVars

\* df = fetch_stock_intraday("AAPL") and the branch on df.empty
StockMessage(out) ==
    IF out.exc # "none" THEN "exception"
    ELSE IF IsEmpty(out.value) THEN "Alpha Vantage rate limit or no data returned. Try again soon."
    ELSE "chart"

AppFetchStock ==
    /\ apc = "fetch" /\ data_type = "Stock (AAPL)"
    /\ \E r \in StockResponses :
       LET out == fetch_stock_intraday(r)
           seen == [out |-> [exc |-> out.exc,
                             value |-> IF out.exc = "none" THEN out.value ELSE NoFrame],
                    message |-> StockMessage(out)]
       IN
       /\ ahttp' = <<r>>
       /\ returned' = IF StockClass(r) \in DOMAIN returned
                      THEN [returned EXCEPT ![StockClass(r)] = <<seen>>]
                      ELSE returned
       /\ IF out.exc = "none"
          THEN adf' = out.value /\ apc' = "render" /\ aexc' = aexc
          ELSE adf' = adf /\ apc' = "error" /\ aexc' = out.exc
    /\ UNCHANGED <<data_type, shown>>
    /\ UNCHANGED dashVars

\* df = fetch_crypto_price("bitcoin", "usd")
AppFetchCrypto ==
    /\ apc = "fetch" /\ data_type = "Crypto (BTC)"
    /\ \E r1 \in MarketsResponses :
       \E r2 \in IF HttpExc(r1) # "none" \/ r1.body.empty THEN {r1} ELSE ChartResponses :
       LET out == fetch_crypto_price(r1, r2) IN
       /\ ahttp' = IF HttpExc(r1) # "none" \/ r1.body.empty THEN <<r1>> ELSE <<r1, r2>>
       /\ IF out.exc = "none"
          THEN adf' = out.value /\ apc' = "render" /\ aexc' = aexc
          ELSE adf' = adf /\ apc' = "error" /\ aexc' = out.exc
    /\ UNCHANGED <<data_type, shown, returned>>
    /\ UNCHANGED dashVars

\* The rendering branch of the chosen dataset.  px.line(df, y=col) raises
\* ValueError when df has no such column.
AppRender ==
    /\ apc = "render"
    /\ IF data_type = "Stock (AAPL)" /\ IsEmpty(adf)
       THEN shown' = "Alpha Vantage rate limit or no data returned. Try again soon."
            /\ apc' = "done" /\ aexc' = aexc
       ELSE LET col == IF data_type = "Crypto (BTC)" THEN "price" ELSE "close" IN
            IF HasCol(adf, col)
            THEN shown' = "chart" /\ apc' = "done" /\ aexc' = aexc
            ELSE shown' = shown /\ apc' = "error" /\ aexc' = "ValueError"
    /\ UNCHANGED <<data_type, ahttp, adf, returned>>
    /\ UNCHANGED dashVars

\* The next interaction runs app.py again from the top.
AppRerun ==
    /\ apc \in {"done", "error"}
    /\ apc' = "idle"
    /\ data_type' = "none"
    /\ ahttp' = <<>>
    /\ adf' = NoFrame
    /\ shown' = "nothing"
    /\ aexc' = "none"
    /\ UNCHANGED returned
    /\ UNCHANGED dashVars

NextApp ==
    \/ AppSelect
    \/ AppFetchFx
    \/ AppFetchStock
    \/ AppFetchCrypto
    \/ AppRender
    \/ AppRerun

SpecApp == Init /\ [][NextApp]_vars

----------------------------------------------------------------------------
(* Vocabulary of the specification's contract *)

\* The fiat-pegged identifiers the market listing is to leave out.
Stablecoins == {"tether"}

\* A response that is a failure of the upstream fetch.
UpstreamFailed(r) ==
    \/ r.kind \in {"transport", "timeout", "nonjson"}
    \/ r.kind = "json" /\ "status" \in r.body.keys

\* The history fetch of this run has been answered.
HistoryAnswered == coin_id # Null /\ pc # "fetch_history"

Timestamps(frame) == [ i \in 1..Len(frame.rows) |-> frame.rows[i].timestamp ]
StrictlyAscending(s) == \A i \in 1..Len(s) - 1 : s[i] < s[i + 1]

----------------------------------------------------------------------------
(* Claims *)

\* C1: a cached call (fetch_top_coins, fetch_coin_history) made while the
\* entry of its key is younger than the 600 s ttl does not run the HTTP
\* fetch and returns the stored value, leaving the store as it is; a call
\* made when the entry is older than the ttl runs the fetch again.
C1_CachedWithinTtl ==
    [][ /\ (pc = "fetch_top" /\ pc' # "fetch_top") =>
             LET e == topCache[PerPage] IN
             /\ (e.present /\ now < e.stored + TTL) =>
                   (http' = NoCall /\ coins' = e.value /\ topCache' = topCache /\ pc' = "select")
             /\ (e.present /\ now > e.stored + TTL) => http'.kind # "nocall"
        /\ (pc = "fetch_history" /\ pc' # "fetch_history") =>
             LET e == histCache[<<coin_id, Days>>] IN
             /\ (e.present /\ now < e.stored + TTL) =>
                   (http' = NoCall /\ heap'[df'] = e.value /\ histCache' = histCache
                      /\ pc' = "indicator")
             /\ (e.present /\ now > e.stored + TTL) => http'.kind # "nocall"
      ]_vars

\* C1 witness: the listing was served from an entry 599 s old, without a fetch.
C1_Witness ==
    /\ pc = "select"
    /\ http = NoCall
    /\ topCache[PerPage].present
    /\ now = topCache[PerPage].stored + TTL - 1

\* C2: a failed fetch is never stored: no entry holds an upstream error
\* payload, and a call whose fetch failed ends with the failure propagated.
C2_FailedFetchNotCached ==
    /\ \A k \in DOMAIN topCache : topCache[k].present => topCache[k].value.shape = "list"
    /\ UpstreamFailed(http) => pc = "error"

\* C3: a timeout or transport failure of the HTTP call yields an error value
\* to the caller; no raw exception leaves the fetch operation.
C3_UnreachableIsAValue ==
    http.kind \in {"transport", "timeout"} => (exc = "none" /\ pc # "error")

\* C4: a history payload without "prices" makes the history fetch return an
\* EmptyData error value (no exception), and neither compute_indicator nor
\* compute_buy_sell_strength runs in that run.
C4_MissingPricesIsEmptyData ==
    (HistoryAnswered /\ http.kind = "json" /\ "prices" \notin http.body.keys) =>
        (exc = "none" /\ df2 = Null /\ strength = Unset)

\* C5: on a non-empty series of fewer than 20 samples compute_buy_sell_strength
\* returns exactly 0 and the gauge value is exactly 50.
C5_ShortSeriesIsNeutral ==
    (pc \in {"gauge", "done", "error"} /\ df2 # Null
       /\ Len(heap[df2].rows) >= 1 /\ Len(heap[df2].rows) < Window) =>
        /\ pc # "error"
        /\ FEq(strength, FInt(0))
        /\ pc = "done" => perc = <<GaugeScale>>

\* C6: no asset of the returned listing, and so no asset selected for the
\* history fetch, has an id on the stablecoin deny-list.
C6_NoStablecoinListed ==
    /\ coins.shape = "list" => \A i \in 1..Len(coins.items) : coins.items[i].id \notin Stablecoins
    /\ coin_id \notin Stablecoins

\* C7: the series handed to compute_indicator has strictly ascending, unique
\* timestamps and no more rows than the payload has distinct price timestamps.
C7_SeriesSortedUnique ==
    df # Null =>
        /\ StrictlyAscending(Timestamps(heap[df]))
        /\ http.kind = "json" =>
             Len(heap[df].rows) <=
                Cardinality({ http.body.prices[i][1] : i \in 1..Len(http.body.prices) })

\* C8: with at least 20 samples and a positive trailing 20-sample sum, the
\* strength is clamp((last - sma) / sma, -1, 1) = clamp((20 last - sum) / sum):
\* within [-1, 1], negative exactly when last < sma, and 1 when last > 2 sma.
C8_StrengthIsClampedRatio ==
    LET prices == Prices(heap[df2])
        last == prices[Len(prices)]
        sum == SumSeq(LastN(prices, Window))
        num == Window * last - sum
        expected == IF num > sum THEN FInt(1)
                    ELSE IF num < -sum THEN FInt(-1) ELSE Fin(num, sum)
    IN  (pc \in {"gauge", "done"} /\ Len(prices) >= Window /\ sum > 0) =>
            /\ FEq(strength, expected)
            /\ ~FLt(strength, FInt(-1)) /\ ~FLt(FInt(1), strength)
            /\ FLt(strength, FInt(0)) <=> (Window * last < sum)
            /\ (Window * last > 2 * sum) => FEq(strength, FInt(1))

\* C8 witness: a series of 20 or more samples whose last price is more than
\* twice the trailing average, scored and capped at 1.
C8_Witness ==
    LET prices == Prices(heap[df2]) IN
    /\ pc = "done"
    /\ Len(prices) > Window
    /\ Window * prices[Len(prices)] > 2 * SumSeq(LastN(prices, Window))
    /\ SumSeq(LastN(prices, Window)) > 0
    /\ FEq(strength, FInt(1))

\* C9: fetch_stock_intraday returns different values for a rate-limit answer
\* and for a malformed answer, and the page shows different messages.
C9_RateLimitVsMalformed ==
    (returned.ratelimit # <<>> /\ returned.malformed # <<>>) =>
        /\ returned.ratelimit[1].out # returned.malformed[1].out
        /\ returned.ratelimit[1].message # returned.malformed[1].message

\* C10: the cached history keeps the columns it was fetched with, the frame
\* served from it is still equal to it after compute_indicator and
\* compute_buy_sell_strength ran (the indicator columns go to a copy), and
\* no step other than the history fetch changes the store.
C10_CachedHistoryUntouched ==
    /\ [](/\ \A k \in HistKeys : histCache[k].present => histCache[k].value.cols = BaseCols
          /\ df # Null => heap[df] = histCache[<<coin_id, Days>>].value)
    /\ [][pc # "fetch_history" => histCache' = histCache]_vars

\* C10 witness: a run that fetched a history, added indicator columns to df2
\* and drew the gauge.
C10_Witness ==
    /\ pc = "done"
    /\ df # Null /\ df2 # Null /\ df2 # df
    /\ heap[df2].cols # BaseCols
    /\ histCache[<<coin_id, Days>>].present

====
